---- MODULE Spec2Model ----
(***************************************************************************)
(* floodwatchph-api: account service (signup, login), user CRUD, session   *)
(* tokens, the auth gate of the protected report routes, report            *)
(* submission and the owner-or-admin status update.                        *)
(*                                                                         *)
(* Every HTTP handler is one action (signup is two: the part before and    *)
(* the part after its insert, so that two signups may interleave).  The    *)
(* response a handler sends is recorded in `last` together with the        *)
(* request that caused it.                                                 *)
(***************************************************************************)
EXTENDS Integers, FiniteSets, Sequences, Bags, TLC

VARIABLES users, inflight, nextUid, reports, nextRid, issued, now, nodeEnv,
          readyState, mail, last

vars == <<users, inflight, nextUid, reports, nextRid, issued, now, nodeEnv,
          readyState, mail, last>>

(***************************************************************************)
(* Bounds of the model.                                                    *)
(***************************************************************************)
MaxUid == 2
MaxInflight == 2
MaxReports == 2
MaxTokens == 1
MaxNow == 8

(***************************************************************************)
(* Program constants.                                                      *)
(***************************************************************************)
\* expiresIn: '7d', in days: one unit of `now` is one day.
ExpiresIn == 7

(***************************************************************************)
(* Request inputs.                                                         *)
(***************************************************************************)
\* req.body.email: two spellings of one address, and another address.
Emails == {"ana@x.com", "Ana@X.com", "bo@x.com"}

\* req.body.password when the field is missing or is not a string.
NoPassword == "<undefined>"

\* req.body.password of a signup: a string, or no string.
SignupPasswords == {"Secr3t!", NoPassword}

\* req.body.password of a login: the password, another one, or no string.
LoginPasswords == {"Secr3t!", "wrong", NoPassword}

\* req.body.password of the /api/users requests.
CrudPasswords == {"Secr3t!"}

Names == {"Ana"}

(***************************************************************************)
(* The User collection.                                                    *)
(***************************************************************************)
\* The schema's case normalization of the email path.
Normalize(e) == IF e = "Ana@X.com" THEN "ana@x.com" ELSE e

\* User.findOne({ email }): the filter is cast by the schema, so it is
\* normalized as the stored value was.
FindOne(us, email) == {u \in us : u.email = Normalize(email)}

\* User.findById(id)
FindById(us, id) == {u \in us : u.id = id}

\* The unique index on email: an insert or update that would give two
\* documents the same email fails with the duplicate-key error (code 11000).
DuplicateKey(us, doc) == \E u \in us : u.id # doc.id /\ u.email = doc.email

\* new User({...}): the document as the schema builds it; role defaults to
\* 'user'.
NewUser(id, name, email, password, role) ==
  [id |-> id, name |-> name, email |-> Normalize(email), password |-> password,
   role |-> role]

\* res.json(user): the document as it is serialized into a response; the
\* password path is not serialized outward.
ToJSON(u) == [id |-> u.id, name |-> u.name, email |-> u.email, role |-> u.role,
              password |-> {}]

(***************************************************************************)
(* bcryptjs.                                                               *)
(***************************************************************************)
\* Two passwords of 73 bytes that differ only in the last byte, and the 72
\* bytes they share.
Long72A == "aaaaaaaaaaaaaaaaaaaaaaaaaaaaaaaaaaaaaaaaaaaaaaaaaaaaaaaaaaaaaaaaaaaaaaaaA"

Long72B == "aaaaaaaaaaaaaaaaaaaaaaaaaaaaaaaaaaaaaaaaaaaaaaaaaaaaaaaaaaaaaaaaaaaaaaaaB"

First72 == "aaaaaaaaaaaaaaaaaaaaaaaaaaaaaaaaaaaaaaaaaaaaaaaaaaaaaaaaaaaaaaaaaaaaaaaa"

\* bcrypt reads the first 72 bytes of a password and ignores the rest.
Truncate(p) == IF p \in {Long72A, Long72B} THEN First72 ELSE p

\* bcrypt.hash(password, 12): a one-way hash of a string.
BcryptHash(p) == [kind |-> "bcrypt", of |-> Truncate(p)]

\* A password stored as the client sent it.
Plain(p) == [kind |-> "plain", of |-> p]

\* bcrypt.hash / bcrypt.compare reject a non-string argument
\* ("Illegal arguments: undefined, string").
BcryptThrows(p) == p = NoPassword

\* bcrypt.compare(password, user.password): true iff the stored value is a
\* bcrypt hash of the password; false for a stored value that is no hash.
BcryptCompare(p, h) == h.kind = "bcrypt" /\ h.of = Truncate(p)

(***************************************************************************)
(* jsonwebtoken.                                                           *)
(***************************************************************************)
\* The HMAC of the claims under JWT_SECRET.
Mac(userId, email, iat, exp) == <<"HS256", userId, email, iat, exp>>

\* jwt.sign({ userId, email }, JWT_SECRET, { expiresIn: '7d' }) at time t.
JwtSignEightDays(userId, email, t) ==
  [userId |-> userId, email |-> email, iat |-> t, exp |-> t + ExpiresIn + 1,
   sig |-> Mac(userId, email, t, t + ExpiresIn + 1)]

JwtSign(userId, email, t) ==
  [userId |-> userId, email |-> email, iat |-> t, exp |-> t + ExpiresIn,
   sig |-> Mac(userId, email, t, t + ExpiresIn)]

(***************************************************************************)
(* Responses.                                                              *)
(***************************************************************************)
\* res.status(status).json({ success, message, error }): `error` is "" when
\* the body has no error field (or it is undefined); `user`, `token`,
\* `userDocs`, `reportDocs` and `errors` are the other fields of the body,
\* empty when the body has none; `hasSuccess` is false for a body without a
\* success field.
Resp(status, success, message, error) ==
  [status |-> status, success |-> success, message |-> message, error |-> error,
   user |-> {}, token |-> {}, userDocs |-> {}, reportDocs |-> {}, errors |-> {},
   hasSuccess |-> TRUE]

NoResp == Resp(0, FALSE, "", "")

\* The request a response answers: the operation, the email and password of
\* its body, the store call that failed while it was served, its bearer
\* token, the time it arrived, whether the auth gate let it pass, the
\* reportedBy field of its body, and the account the handler worked on; for
\* a request to api/server.js, its method and path, whether the database was
\* connected when it arrived, the outcome of the reconnect ("none" when none
\* was attempted) and the route handler that was invoked ("" when none was);
\* for a report submission its body, for a status update the status value
\* of its body.
Req(op, email, password, fault) ==
  [op |-> op, email |-> email, password |-> password, fault |-> fault,
   tok |-> {}, at |-> 0, authOk |-> FALSE, reporter |-> 0, acct |-> {},
   method |-> "", path |-> "", connected |-> TRUE, reconnect |-> "none",
   handler |-> "", body |-> {}, status |-> ""]

\* error.message of a failed store call, and of bcrypt's argument check.
StoreErrorMessage == "MongoNetworkError: connection timed out"

DuplicateKeyMessage == "E11000 duplicate key error collection: users index: email_1"

BcryptErrorMessage == "Illegal arguments: undefined, number"

(***************************************************************************)
(* POST /signup                                                            *)
(***************************************************************************)
UserResponseWithPassword(u) ==
  [id |-> u.id, name |-> u.name, email |-> u.email, password |-> {u.password}]

\* The user object of the signup and login responses (without password).
UserResponse(u) == [id |-> u.id, name |-> u.name, email |-> u.email, password |-> {}]

SignupExistsResp == Resp(400, FALSE, "User already exists with this email", "")

SignupCatchRespAsExists(msg) ==
  Resp(400, FALSE, "User already exists with this email", msg)

\* The catch block of the signup handler.
SignupCatchResp(msg) == Resp(400, FALSE, "Error creating user", msg)

SignupCreatedResp(saved, token) ==
  [Resp(201, TRUE, "User created successfully", "")
     EXCEPT !.user = {UserResponse(saved)}, !.token = {token}]

SignupExistingUserUnchecked(email) == {}

\* const existingUser = await User.findOne({ email })
SignupExistingUser(email) == FindOne(users, email)

\* The handler up to `await user.save()`: the existence check and the hash.
SignupBegin(email, password, name, fault) ==
  LET req == Req("signup", email, password, fault) IN
  /\ fault \in {"none", "findOne"}
  /\ IF fault = "findOne"
       THEN /\ last' = [req |-> req, resp |-> SignupCatchResp(StoreErrorMessage)]
            /\ UNCHANGED inflight
     ELSE IF SignupExistingUser(email) # {}
       THEN /\ last' = [req |-> req, resp |-> SignupExistsResp]
            /\ UNCHANGED inflight
     ELSE IF BcryptThrows(password)
       THEN /\ last' = [req |-> req, resp |-> SignupCatchResp(BcryptErrorMessage)]
            /\ UNCHANGED inflight
     ELSE /\ BagCardinality(inflight) < MaxInflight
          /\ inflight' = inflight (+)
               SetToBag({[name |-> name, email |-> email,
                          hashedPassword |-> BcryptHash(password)]})
          /\ UNCHANGED last
  /\ UNCHANGED <<users, nextUid, reports, nextRid, issued, now, nodeEnv, readyState, mail>>

SignupTokenFromBody(savedUser, r) == JwtSign(savedUser.id, r.email, now)

\* jwt.sign({ userId: savedUser._id, email: savedUser.email }, ...)
SignupToken(savedUser, r) == JwtSign(savedUser.id, savedUser.email, now)

\* The handler from `await user.save()` on: the insert, the token, the
\* response; a failed insert goes to the catch block.
SignupSave(r, fault) ==
  LET req   == Req("signup", r.email, r.hashedPassword.of, fault)
      user  == NewUser(nextUid, r.name, r.email, r.hashedPassword, "user")
      token == SignupToken(user, r)
  IN
  /\ BagIn(r, inflight)
  /\ fault \in {"none", "save"}
  /\ inflight' = inflight (-) SetToBag({r})
  /\ IF fault = "save"
       THEN /\ last' = [req |-> req, resp |-> SignupCatchResp(StoreErrorMessage)]
            /\ UNCHANGED <<users, nextUid>>
     ELSE IF DuplicateKey(users, user)
       THEN /\ last' = [req |-> req, resp |-> SignupCatchResp(DuplicateKeyMessage)]
            /\ UNCHANGED <<users, nextUid>>
     ELSE /\ nextUid <= MaxUid
          /\ users' = users \cup {user}
          /\ nextUid' = nextUid + 1
          /\ last' = [req |-> [req EXCEPT !.acct = {user}],
                      resp |-> SignupCreatedResp(user, token)]
  /\ UNCHANGED <<reports, nextRid, issued, now, nodeEnv, readyState, mail>>

(***************************************************************************)
(* POST /login                                                             *)
(***************************************************************************)
LoginNoUserResp == Resp(401, FALSE, "Invalid email or password", "")

LoginBadPasswordResp == Resp(401, FALSE, "Invalid email or password", "")

LoginCatchResp(msg) == Resp(500, FALSE, "Server error during login", msg)

LoginOkResp(user, token) ==
  [Resp(200, TRUE, "Login successful", "")
     EXCEPT !.user = {UserResponse(user)}, !.token = {token}]

\* jwt.sign({ userId: user._id, email: user.email }, ...)
LoginToken(user) == JwtSign(user.id, user.email, now)

\* The handler of POST /login: the request it served and its response, over
\* the accounts `us`.
LoginOutcome(us, email, password, fault) ==
  LET req   == Req("login", email, password, fault)
      found == FindOne(us, email)
  IN
  IF fault = "findOne"
    THEN [req |-> req, resp |-> LoginCatchResp(StoreErrorMessage)]
  ELSE IF found = {}
    THEN [req |-> req, resp |-> LoginNoUserResp]
  ELSE LET user == CHOOSE u \in found : TRUE IN
         IF BcryptThrows(password)
           THEN [req |-> [req EXCEPT !.acct = {user}],
                 resp |-> LoginCatchResp(BcryptErrorMessage)]
         ELSE IF ~BcryptCompare(password, user.password)
           THEN [req |-> [req EXCEPT !.acct = {user}], resp |-> LoginBadPasswordResp]
         ELSE [req |-> [req EXCEPT !.acct = {user}],
               resp |-> LoginOkResp(user, LoginToken(user))]

Login(email, password, fault) ==
  /\ fault \in {"none", "findOne"}
  /\ last' = LoginOutcome(users, email, password, fault)
  /\ UNCHANGED <<users, inflight, nextUid, reports, nextRid, issued, now, nodeEnv, readyState, mail>>

(***************************************************************************)
(* /api/users: list, get, create, update, delete                           *)
(***************************************************************************)
UsersServerErrorResp(msg) == Resp(500, FALSE, "Server Error", msg)

UsersNotFoundResp == Resp(404, FALSE, "User not found", "")

\* { success: true, count, data: users } and { success: true, data: user }
UsersDataResp(status, message, docs) ==
  [Resp(status, TRUE, message, "") EXCEPT !.userDocs = {ToJSON(u) : u \in docs}]

\* GET /api/users
UsersList(fault) ==
  LET req == Req("users.list", "", "", fault) IN
  /\ fault \in {"none", "find"}
  /\ last' = [req |-> req,
              resp |-> IF fault = "find" THEN UsersServerErrorResp(StoreErrorMessage)
                       ELSE UsersDataResp(200, "", users)]
  /\ UNCHANGED <<users, inflight, nextUid, reports, nextRid, issued, now, nodeEnv, readyState, mail>>

\* GET /api/users/:id ("cast": the id is no ObjectId, error.kind === 'ObjectId')
UsersGet(id, fault) ==
  LET req == Req("users.get", "", "", fault) IN
  /\ fault \in {"none", "findById", "cast"}
  /\ last' = [req |-> req,
              resp |-> IF fault = "cast" THEN UsersNotFoundResp
                       ELSE IF fault = "findById"
                         THEN UsersServerErrorResp(StoreErrorMessage)
                       ELSE IF FindById(users, id) = {} THEN UsersNotFoundResp
                       ELSE UsersDataResp(200, "", FindById(users, id))]
  /\ UNCHANGED <<users, inflight, nextUid, reports, nextRid, issued, now, nodeEnv, readyState, mail>>

\* POST /api/users: new User(req.body) is saved as the body gives it.
UsersCreate(name, email, password, role, fault) ==
  LET req  == Req("users.create", "", "", fault)
      user == NewUser(nextUid, name, email, Plain(password), role)
  IN
  /\ fault \in {"none", "save"}
  /\ IF fault = "save"
       THEN /\ last' = [req |-> req,
                        resp |-> Resp(400, FALSE, "Error creating user", StoreErrorMessage)]
            /\ UNCHANGED <<users, nextUid>>
     ELSE IF DuplicateKey(users, user)
       THEN /\ last' = [req |-> req, resp |-> Resp(400, FALSE, "Email already exists", "")]
            /\ UNCHANGED <<users, nextUid>>
     ELSE /\ nextUid <= MaxUid
          /\ users' = users \cup {user}
          /\ nextUid' = nextUid + 1
          /\ last' = [req |-> [req EXCEPT !.acct = {user}],
                      resp |-> UsersDataResp(201, "", {user})]
  /\ UNCHANGED <<inflight, reports, nextRid, issued, now, nodeEnv, readyState, mail>>

\* The bodies of PUT /api/users/:id: one path each.
UpdateBodies ==
  [path : {"email"}, email : Emails, password : {""}]
    \cup [path : {"password"}, email : {""}, password : CrudPasswords]

\* The document after findByIdAndUpdate(id, body).
Updated(u, body) ==
  IF body.path = "email" THEN [u EXCEPT !.email = Normalize(body.email)]
  ELSE [u EXCEPT !.password = Plain(body.password)]

\* PUT /api/users/:id
UsersUpdate(id, body, fault) ==
  LET req   == Req("users.update", "", "", fault)
      found == FindById(users, id)
  IN
  /\ fault \in {"none", "findByIdAndUpdate"}
  /\ IF fault = "findByIdAndUpdate"
       THEN /\ last' = [req |-> req,
                        resp |-> Resp(400, FALSE, "Error updating user", StoreErrorMessage)]
            /\ UNCHANGED users
     ELSE IF found = {}
       THEN /\ last' = [req |-> req, resp |-> UsersNotFoundResp]
            /\ UNCHANGED users
     ELSE \E u \in found :
            IF DuplicateKey(users, Updated(u, body))
              THEN /\ last' = [req |-> req,
                               resp |-> Resp(400, FALSE, "Error updating user",
                                             DuplicateKeyMessage)]
                   /\ UNCHANGED users
            ELSE /\ users' = (users \ {u}) \cup {Updated(u, body)}
                 /\ last' = [req |-> [req EXCEPT !.acct = {Updated(u, body)}],
                             resp |-> UsersDataResp(200, "", {Updated(u, body)})]
  /\ UNCHANGED <<inflight, nextUid, reports, nextRid, issued, now, nodeEnv, readyState, mail>>

\* DELETE /api/users/:id
UsersDelete(id, fault) ==
  LET req   == Req("users.delete", "", "", fault)
      found == FindById(users, id)
  IN
  /\ fault \in {"none", "findByIdAndDelete"}
  /\ IF fault = "findByIdAndDelete"
       THEN /\ last' = [req |-> req, resp |-> UsersServerErrorResp(StoreErrorMessage)]
            /\ UNCHANGED users
     ELSE IF found = {}
       THEN /\ last' = [req |-> req, resp |-> UsersNotFoundResp]
            /\ UNCHANGED users
     ELSE /\ users' = users \ found
          /\ last' = [req |-> [req EXCEPT !.acct = found],
                      resp |-> UsersDataResp(200, "User deleted successfully", found)]
  /\ UNCHANGED <<inflight, nextUid, reports, nextRid, issued, now, nodeEnv, readyState, mail>>

(***************************************************************************)
(* EmailService: construction                                              *)
(***************************************************************************)
\* The value a call of the service returned (none yet).
NoResult == [op |-> "", success |-> FALSE, error |-> "", messageId |-> 0]

\* initializeTransporter(): without EMAIL_HOST, EMAIL_USER or EMAIL_PASS the
\* service stays disabled; otherwise createTransport gives the transporter,
\* unless it throws.
InitializeTransporter(m, throws) ==
  IF ~m.envSet THEN [m EXCEPT !.isConfigured = FALSE, !.failedVerify = FALSE]
  ELSE IF throws THEN [m EXCEPT !.isConfigured = FALSE, !.failedVerify = FALSE]
  ELSE [m EXCEPT !.transporter = TRUE, !.isConfigured = TRUE, !.failedVerify = FALSE]

\* new EmailService(): `envSet` says whether the email configuration is
\* present; `transporter` whether this.transporter is set; `verifying` counts
\* the transporter.verify() calls in flight and `sending` the named
\* sendMail calls in flight; `sendMailCalls` counts the calls of
\* transporter.sendMail; `failedVerify` records that verifyTransporter has
\* failed since initializeTransporter last ran.
EmailServiceNew(envSet) ==
  InitializeTransporter(
    [envSet |-> envSet, isConfigured |-> FALSE, transporter |-> FALSE,
     verifying |-> 0, sending |-> EmptyBag, sendMailCalls |-> 0,
     failedVerify |-> FALSE, result |-> NoResult], FALSE)

(***************************************************************************)
(* The account service and the user CRUD, at one instant.                  *)
(***************************************************************************)
Init ==
  /\ users = {}
  /\ inflight = EmptyBag
  /\ nextUid = 1
  /\ reports = {}
  /\ nextRid = 1
  /\ issued = {}
  /\ now = 0
  \* the account and user handlers do not read NODE_ENV
  /\ nodeEnv = "production"
  /\ readyState = 1
  /\ mail = EmailServiceNew(FALSE)
  /\ last = [req |-> Req("none", "", "", "none"), resp |-> NoResp]

Next ==
  \/ \E e \in Emails, p \in SignupPasswords, n \in Names, f \in {"none", "findOne"} :
       SignupBegin(e, p, n, f)
  \/ \E r \in BagToSet(inflight), f \in {"none", "save"} : SignupSave(r, f)
  \/ \E e \in Emails, p \in LoginPasswords, f \in {"none", "findOne"} : Login(e, p, f)
  \/ \E f \in {"none", "find"} : UsersList(f)
  \/ \E id \in 1..MaxUid, f \in {"none", "findById", "cast"} : UsersGet(id, f)
  \/ \E n \in Names, e \in Emails, p \in CrudPasswords, f \in {"none", "save"} :
       UsersCreate(n, e, p, "user", f)
  \/ \E id \in 1..MaxUid, b \in UpdateBodies, f \in {"none", "findByIdAndUpdate"} :
       UsersUpdate(id, b, f)
  \/ \E id \in 1..MaxUid, f \in {"none", "findByIdAndDelete"} : UsersDelete(id, f)

Spec == Init /\ [][Next]_vars

(***************************************************************************)
(* Auth middleware                                                         *)
(***************************************************************************)
\* A header that carries something that is no token.
Malformed == [userId |-> 0, email |-> "", iat |-> 0, exp |-> 0, sig |-> <<"garbage", 0, "", 0, 0>>]

\* jwt.verify(token, JWT_SECRET) at time t: the token is well formed, its
\* signature is the HMAC of its claims, and t is before its expiry.
JwtVerify(tok, t) ==
  /\ tok # Malformed
  /\ tok.sig = Mac(tok.userId, tok.email, tok.iat, tok.exp)
  /\ ~(t >= tok.exp)

\* The gate: `tok` is the set holding the bearer token of the request (empty
\* when the request carries none).  On success the request gets the
\* account's identifier as req.userId and the account as req.user.
Auth(tok, t) ==
  LET good == {k \in tok : JwtVerify(k, t) /\ FindById(users, k.userId) # {}} IN
  IF good = {} THEN [ok |-> FALSE, userId |-> 0, role |-> ""]
  ELSE LET k == CHOOSE k \in good : TRUE
           u == CHOOSE u \in FindById(users, k.userId) : TRUE
       IN [ok |-> TRUE, userId |-> k.userId, role |-> u.role]

UnauthorizedResp == Resp(401, FALSE, "Not authorized", "")

\* The request record of a protected route.
AuthReq(op, tok, fault) ==
  [Req(op, "", "", "") EXCEPT !.tok = tok, !.at = now, !.authOk = Auth(tok, now).ok]

(***************************************************************************)
(* FloodReport and the report routes                                       *)
(***************************************************************************)
Statuses == {"active", "resolved", "false_report"}

Severities == {"light", "moderate", "severe"}

\* maxlength / isLength({ max: 1000 })
MaxDescription == 1000

MaxLatitude == 90

MaxLongitude == 180

\* A number or a length that the body does not give.
Missing == 9999

\* new FloodReport({...}): reportedBy defaults to "anonymous" (0), status to
\* "active", verified to false.
NewReport(id, body, reportedBy, status) ==
  [id |-> id, severity |-> body.severity, location |-> body.location,
   description |-> body.description, latitude |-> body.latitude,
   longitude |-> body.longitude, reportedBy |-> reportedBy, status |-> status,
   verified |-> FALSE]

ValidationErrorsNone(body) == {}

\* reportValidation: the fields of the body that fail their rule.
ValidationErrors(body) ==
  {f \in {"severity", "location", "description", "latitude", "longitude"} :
     \/ f = "severity" /\ body.severity \notin Severities
     \/ f = "location" /\ body.location = ""
     \/ f = "description" /\ body.description # Missing
                          /\ body.description > MaxDescription
     \/ f = "latitude" /\ body.latitude # Missing
                       /\ ~(-MaxLatitude <= body.latitude /\ body.latitude <= MaxLatitude)
     \/ f = "longitude" /\ body.longitude # Missing
                        /\ ~(-MaxLongitude <= body.longitude
                             /\ body.longitude <= MaxLongitude)}

SubmitReportedByBody(userId, body) ==
  IF body.reportedBy # 0 THEN body.reportedBy ELSE userId

\* reportedBy: req.userId
SubmitReportedBy(userId, body) == userId

SubmitGateOpen(tok) == [ok |-> TRUE, userId |-> 0, role |-> ""]

\* router.post("/submit", auth, ...): the gate in front of the handler.
SubmitGate(tok) == Auth(tok, now)

\* POST /submit (auth, reportValidation, handler)
Submit(tok, body, fault) ==
  LET req    == [AuthReq("submit", tok, fault)
                    EXCEPT !.reporter = body.reportedBy, !.body = {body}]
      caller == SubmitGate(tok)
      errors == ValidationErrors(body)
      report == NewReport(nextRid, body, SubmitReportedBy(caller.userId, body), "active")
  IN
  /\ fault \in {"none", "save"}
  /\ IF ~caller.ok
       THEN /\ last' = [req |-> req, resp |-> UnauthorizedResp]
            /\ UNCHANGED <<reports, nextRid>>
     ELSE IF errors # {}
       THEN /\ last' = [req |-> req,
                        resp |-> [Resp(400, FALSE, "Validation failed", "")
                                    EXCEPT !.errors = errors]]
            /\ UNCHANGED <<reports, nextRid>>
     ELSE IF fault = "save"
       THEN /\ last' = [req |-> req,
                        resp |-> Resp(500, FALSE, "Failed to submit flood report",
                                      IF nodeEnv = "development" THEN StoreErrorMessage
                                      ELSE "")]
            /\ UNCHANGED <<reports, nextRid>>
     ELSE /\ nextRid <= MaxReports
          /\ reports' = reports \cup {report}
          /\ nextRid' = nextRid + 1
          /\ last' = [req |-> req,
                      resp |-> [Resp(201, TRUE, "Flood report submitted successfully", "")
                                  EXCEPT !.reportDocs = {report}]]
  /\ UNCHANGED <<users, inflight, nextUid, issued, now, nodeEnv, readyState, mail>>

\* GET /user/my-reports (auth, handler)
MyReports(tok, fault) ==
  LET req    == AuthReq("myReports", tok, fault)
      caller == Auth(tok, now)
  IN
  /\ fault \in {"none", "find"}
  /\ last' = [req |-> req,
              resp |-> IF ~caller.ok THEN UnauthorizedResp
                       ELSE IF fault = "find"
                         THEN Resp(500, FALSE, "Failed to fetch your flood reports", "")
                       ELSE [Resp(200, TRUE, "", "") EXCEPT !.reportDocs =
                               {r \in reports : r.reportedBy = caller.userId}]]
  /\ UNCHANGED <<users, inflight, nextUid, reports, nextRid, issued, now, nodeEnv, readyState, mail>>

ValidStatusAny(status) == TRUE

\* req.body.status is one of the three
ValidStatus(status) == status \in Statuses

NotAuthorizedOwnerOnly(report, caller) == report.reportedBy # caller.userId

\* report.reportedBy.toString() !== req.userId && req.user.role !== 'admin'
NotAuthorized(report, caller) ==
  report.reportedBy # caller.userId /\ caller.role # "admin"

\* router.patch("/:id/status", auth, ...): the gate in front of the handler.
UpdateStatusGate(tok) == Auth(tok, now)

\* A req.params.id that is no ObjectId.
NotObjectId == 0

\* FloodReport.findById(id) rejects with a CastError for such an id.
CastFails(id) == id = NotObjectId

RejectedAfterAssign(report, status) ==
  (reports \ {report}) \cup {[report EXCEPT !.status = status]}

\* The store when the handler returns 403: report.status is assigned and
\* saved only after the ownership check.
Rejected(report, status) == reports

\* PATCH /:id/status (auth, handler)
UpdateStatus(tok, id, status, fault) ==
  LET req    == [AuthReq("updateStatus", tok, fault) EXCEPT !.status = status]
      caller == UpdateStatusGate(tok)
      found  == {r \in reports : r.id = id}
  IN
  /\ fault \in {"none", "findById", "save"}
  /\ IF ~caller.ok
       THEN /\ last' = [req |-> req, resp |-> UnauthorizedResp]
            /\ UNCHANGED reports
     ELSE IF ~ValidStatus(status)
       THEN /\ last' = [req |-> req, resp |-> Resp(400, FALSE, "Invalid status value", "")]
            /\ UNCHANGED reports
     ELSE IF fault = "findById" \/ CastFails(id)
       THEN /\ last' = [req |-> req,
                        resp |-> Resp(500, FALSE, "Failed to update report status", "")]
            /\ UNCHANGED reports
     ELSE IF found = {}
       THEN /\ last' = [req |-> req, resp |-> Resp(404, FALSE, "Flood report not found", "")]
            /\ UNCHANGED reports
     ELSE \E report \in found :
            IF NotAuthorized(report, caller)
              THEN /\ last' = [req |-> req,
                               resp |-> Resp(403, FALSE,
                                             "Not authorized to update this report", "")]
                   /\ reports' = Rejected(report, status)
            ELSE IF fault = "save"
              THEN /\ last' = [req |-> req,
                               resp |-> Resp(500, FALSE, "Failed to update report status", "")]
                   /\ UNCHANGED reports
            ELSE /\ reports' = (reports \ {report}) \cup {[report EXCEPT !.status = status]}
                 /\ last' = [req |-> req,
                             resp |-> [Resp(200, TRUE, "Report status updated successfully", "")
                                         EXCEPT !.reportDocs =
                                           {[report EXCEPT !.status = status]}]]
  /\ UNCHANGED <<users, inflight, nextUid, nextRid, issued, now, nodeEnv, readyState, mail>>

(***************************************************************************)
(* The report routes, with three accounts and the tokens a request may     *)
(* carry at one instant.                                                   *)
(***************************************************************************)
ReportAccounts ==
  {NewUser(1, "Ana", "ana@x.com", BcryptHash("Secr3t!"), "user"),
   NewUser(2, "Bo", "bo@x.com", BcryptHash("Secr3t!"), "user"),
   NewUser(3, "Cy", "cy@x.com", BcryptHash("Secr3t!"), "admin")}

\* The bearer tokens of the requests at time ExpiresIn: none; a token issued
\* now to each account; one issued ExpiresIn ago.
TokenInputs ==
  {{}} \cup {{JwtSign(u.id, u.email, ExpiresIn)} : u \in ReportAccounts}
    \cup {{JwtSign(1, "ana@x.com", 0)}}

\* A body that passes reportValidation and gives no reporter.
ValidBody ==
  [severity |-> "severe", location |-> "Marikina", description |-> MaxDescription,
   latitude |-> MaxLatitude, longitude |-> Missing,
   reportedBy |-> 0, status |-> "", verified |-> FALSE]

Bodies ==
  {ValidBody,
   [ValidBody EXCEPT !.reportedBy = 3, !.status = "resolved", !.verified = TRUE],
   [ValidBody EXCEPT !.severity = "extreme"],
   [ValidBody EXCEPT !.description = MaxDescription + 1],
   [ValidBody EXCEPT !.latitude = MaxLatitude + 1],
   [ValidBody EXCEPT !.severity = "", !.location = "", !.description = MaxDescription + 1,
                     !.latitude = -MaxLatitude - 1, !.longitude = MaxLongitude + 1]}

\* req.body.status of a status update: one of the three, and one that is not.
StatusInputs == {"resolved", "archived"}

InitReports ==
  /\ users = ReportAccounts
  /\ inflight = EmptyBag
  /\ nextUid = 4
  /\ reports = {}
  /\ nextRid = 1
  /\ issued = {}
  /\ now = ExpiresIn
  \* the report handlers read NODE_ENV only for the error field of a failed
  \* submission
  /\ nodeEnv = "production"
  /\ readyState = 1
  /\ mail = EmailServiceNew(FALSE)
  /\ last = [req |-> Req("none", "", "", "none"), resp |-> NoResp]

NextReports ==
  \/ \E tok \in TokenInputs, b \in Bodies, f \in {"none", "save"} : Submit(tok, b, f)
  \/ \E tok \in TokenInputs, f \in {"none", "find"} : MyReports(tok, f)
  \/ \E tok \in TokenInputs, id \in {NotObjectId} \cup 1..MaxReports,
        st \in StatusInputs, f \in {"none", "findById", "save"} :
       UpdateStatus(tok, id, st, f)

SpecReports == InitReports /\ [][NextReports]_vars

(***************************************************************************)
(* Tokens over time: logins issue tokens, clients keep them, the clock     *)
(* advances, and a protected route verifies what is presented.             *)
(***************************************************************************)
\* A client keeps the token of the response it just got.
Keep ==
  /\ last.resp.token # {}
  /\ Cardinality(issued) < MaxTokens
  /\ issued' = issued \cup last.resp.token
  /\ issued' # issued
  /\ UNCHANGED <<users, inflight, nextUid, reports, nextRid, now, nodeEnv, readyState, mail, last>>

\* A day passes.
Tick ==
  /\ now < MaxNow
  /\ now' = now + 1
  /\ UNCHANGED <<users, inflight, nextUid, reports, nextRid, issued, nodeEnv, readyState, mail, last>>

\* What a request may carry: nothing, a kept token, a kept token whose
\* userId or exp claim was changed after signing, or something that is no
\* token.
Presented(kept) ==
  {{}} \cup {{k} : k \in kept}
    \cup {{[k EXCEPT !.userId = 3]} : k \in kept}
    \cup {{[k EXCEPT !.exp = k.exp + 1]} : k \in kept}
    \cup {{Malformed}}

InitToken ==
  /\ users = ReportAccounts
  /\ inflight = EmptyBag
  /\ nextUid = 4
  /\ reports = {}
  /\ nextRid = 1
  /\ issued = {}
  /\ now = 0
  /\ nodeEnv = "production"
  /\ readyState = 1
  /\ mail = EmailServiceNew(FALSE)
  /\ last = [req |-> Req("none", "", "", "none"), resp |-> NoResp]

NextToken ==
  \/ \E e \in Emails, p \in LoginPasswords, f \in {"none", "findOne"} : Login(e, p, f)
  \/ Keep
  \/ Tick
  \/ \E tok \in Presented(issued), f \in {"none", "find"} : MyReports(tok, f)

SpecToken == InitToken /\ [][NextToken]_vars

(***************************************************************************)
(* Credentials: signups, logins with the same and with other passwords,    *)
(* and updates that change an account.                                     *)
(***************************************************************************)
\* req.body.password of the signups: a short and a long password.
CredentialSignupPasswords == {"Secr3t!", Long72A}

\* req.body.password of the logins: those, another short and another long
\* one, and no string.
CredentialLoginPasswords == {"Secr3t!", "wrong", Long72A, Long72B, NoPassword}

NextCredentials ==
  \/ \E e \in Emails, p \in CredentialSignupPasswords, n \in Names :
       SignupBegin(e, p, n, "none")
  \/ \E r \in BagToSet(inflight) : SignupSave(r, "none")
  \/ \E e \in Emails, p \in CredentialLoginPasswords : Login(e, p, "none")
  \/ \E id \in 1..MaxUid, b \in UpdateBodies : UsersUpdate(id, b, "none")

SpecCredentials == Init /\ [][NextCredentials]_vars

(***************************************************************************)
(* server.js: the /api/users routes, the two information routes, the 404   *)
(* handler and the error-handling middleware.                              *)
(***************************************************************************)
\* The request record of a request to a server: its method and path.
HttpReq(op, method, path) ==
  [Req(op, "", "", "none") EXCEPT !.method = method, !.path = path]

\* res.json({ message, ... }) of the information routes: a body without a
\* success field.
InfoResp(message) == [Resp(200, FALSE, message, "") EXCEPT !.hasSuccess = FALSE]

\* app.get('/api')
ApiInfo ==
  /\ last' = [req |-> HttpReq("apiInfo", "GET", "/api"),
              resp |-> InfoResp("Welcome to FloodWatch API")]
  /\ UNCHANGED <<users, inflight, nextUid, reports, nextRid, issued, now, nodeEnv,
                 readyState, mail>>

\* app.get('/')
Home ==
  /\ last' = [req |-> HttpReq("home", "GET", "/"),
              resp |-> InfoResp("Welcome to FloodWatch API - MongoDB REST API with ES Modules")]
  /\ UNCHANGED <<users, inflight, nextUid, reports, nextRid, issued, now, nodeEnv,
                 readyState, mail>>

\* Paths that no route of server.js matches.
UnroutedPaths == {"/api/reports", "/favicon.ico"}

\* app.use((req, res) => res.status(404).json({...}))
NotFound(method, path) ==
  /\ last' = [req |-> HttpReq("notFound", method, path),
              resp |-> Resp(404, FALSE,
                            "Route " \o method \o " " \o path \o " not found", "")]
  /\ UNCHANGED <<users, inflight, nextUid, reports, nextRid, issued, now, nodeEnv,
                 readyState, mail>>

\* error.message of a request body that express.json cannot parse.
BodyErrorMessage == "Unexpected token } in JSON at position 1"

\* app.use((error, req, res, next) => ...): a request whose body cannot be
\* parsed reaches the error-handling middleware.
ErrorHandler(method, path) ==
  /\ last' = [req |-> HttpReq("error", method, path),
              resp |-> Resp(500, FALSE, "Internal Server Error",
                            IF nodeEnv = "development" THEN BodyErrorMessage ELSE "")]
  /\ UNCHANGED <<users, inflight, nextUid, reports, nextRid, issued, now, nodeEnv,
                 readyState, mail>>

NextServer ==
  \/ \E f \in {"none", "find"} : UsersList(f)
  \/ \E id \in 1..MaxUid, f \in {"none", "findById", "cast"} : UsersGet(id, f)
  \/ \E n \in Names, e \in Emails, p \in CrudPasswords, f \in {"none", "save"} :
       UsersCreate(n, e, p, "user", f)
  \/ \E id \in 1..MaxUid, b \in UpdateBodies, f \in {"none", "findByIdAndUpdate"} :
       UsersUpdate(id, b, f)
  \/ \E id \in 1..MaxUid, f \in {"none", "findByIdAndDelete"} : UsersDelete(id, f)
  \/ ApiInfo
  \/ Home
  \/ \E m \in {"GET", "POST"}, p \in UnroutedPaths : NotFound(m, p)
  \/ \E m \in {"POST", "PUT"} : ErrorHandler(m, "/api/users")

SpecServer == Init /\ [][NextServer]_vars

(***************************************************************************)
(* EmailService: verifyTransporter, send2FACode, sendWelcomeEmail.  A call *)
(* runs up to its await in one step; what it awaits returns in another.    *)
(***************************************************************************)
MaxVerifying == 2
MaxSending == 2
MaxMailCalls == 3

NotConfiguredMessage == "Email service not configured"

\* error.message of a failed transporter.verify() or transporter.sendMail().
SmtpErrorMessage == "connect ECONNREFUSED 127.0.0.1:587"

\* return { success: false, error }
Failure(op, error) == [op |-> op, success |-> FALSE, error |-> error, messageId |-> 0]

\* return { success: true, messageId: info.messageId }
Sent(op, messageId) == [op |-> op, success |-> TRUE, error |-> "", messageId |-> messageId]

\* A later call of initializeTransporter().
Reinitialize(throws) ==
  /\ mail' = InitializeTransporter(mail, throws)
  /\ UNCHANGED <<users, inflight, nextUid, reports, nextRid, issued, now, nodeEnv,
                 readyState, last>>

\* verifyTransporter() up to `await this.transporter.verify()`.
VerifyCall ==
  /\ IF ~mail.isConfigured
       THEN mail' = [mail EXCEPT !.result = Failure("verifyTransporter", NotConfiguredMessage)]
     ELSE /\ mail.verifying < MaxVerifying
          /\ mail' = [mail EXCEPT !.verifying = @ + 1]
  /\ UNCHANGED <<users, inflight, nextUid, reports, nextRid, issued, now, nodeEnv,
                 readyState, last>>

VerifyFailedStaysConfigured(m) ==
  [m EXCEPT !.failedVerify = TRUE,
            !.result = Failure("verifyTransporter", SmtpErrorMessage)]

\* The catch block of verifyTransporter.
VerifyFailed(m) ==
  [m EXCEPT !.isConfigured = FALSE, !.failedVerify = TRUE,
            !.result = Failure("verifyTransporter", SmtpErrorMessage)]

\* verifyTransporter() from the await on: transporter.verify() resolved or
\* rejected.
VerifyReturn(ok) ==
  /\ mail.verifying > 0
  /\ mail' = IF ok
               THEN [mail EXCEPT !.verifying = @ - 1,
                                 !.result = Sent("verifyTransporter", 0)]
             ELSE [VerifyFailed(mail) EXCEPT !.verifying = @ - 1]
  /\ UNCHANGED <<users, inflight, nextUid, reports, nextRid, issued, now, nodeEnv,
                 readyState, last>>

\* A send operation up to `await this.transporter.sendMail(mailOptions)`:
\* `complete` says whether the arguments it requires are given.
SendCall(op, complete, requiredMessage) ==
  /\ IF ~mail.isConfigured
       THEN mail' = [mail EXCEPT !.result = Failure(op, NotConfiguredMessage)]
     ELSE IF ~complete
       THEN mail' = [mail EXCEPT !.result = Failure(op, requiredMessage)]
     ELSE /\ mail.sendMailCalls < MaxMailCalls
          /\ BagCardinality(mail.sending) < MaxSending
          /\ mail' = [mail EXCEPT !.sendMailCalls = @ + 1,
                                  !.sending = @ (+) SetToBag({op})]
  /\ UNCHANGED <<users, inflight, nextUid, reports, nextRid, issued, now, nodeEnv,
                 readyState, last>>

\* send2FACode(email, code): "" is a missing argument.
Send2FACode(email, code) ==
  SendCall("send2FACode", email # "" /\ code # "",
           "Email and verification code are required")

\* sendWelcomeEmail(user): "" is a missing field.
SendWelcomeEmail(user) ==
  SendCall("sendWelcomeEmail", user.email # "" /\ user.name # "",
           "User information is required")

\* A send operation from the await on: sendMail resolved or rejected.
SendReturn(op, ok) ==
  /\ BagIn(op, mail.sending)
  /\ mail' = [mail EXCEPT !.sending = @ (-) SetToBag({op}),
                          !.result = IF ok THEN Sent(op, mail.sendMailCalls)
                                     ELSE Failure(op, SmtpErrorMessage)]
  /\ UNCHANGED <<users, inflight, nextUid, reports, nextRid, issued, now, nodeEnv,
                 readyState, last>>

\* The arguments of the send operations.
MailAddresses == {"ana@x.com", ""}

MailCodes == {"123456", ""}

MailUsers == [email : MailAddresses, name : {"Ana", ""}]

InitEmail ==
  /\ users = {}
  /\ inflight = EmptyBag
  /\ nextUid = 1
  /\ reports = {}
  /\ nextRid = 1
  /\ issued = {}
  /\ now = 0
  /\ nodeEnv = "production"
  /\ readyState = 1
  /\ mail \in {EmailServiceNew(TRUE), EmailServiceNew(FALSE)}
  /\ last = [req |-> Req("none", "", "", "none"), resp |-> NoResp]

NextEmail ==
  \/ \E throws \in BOOLEAN : Reinitialize(throws)
  \/ VerifyCall
  \/ \E ok \in BOOLEAN : VerifyReturn(ok)
  \/ \E e \in MailAddresses, c \in MailCodes : Send2FACode(e, c)
  \/ \E u \in MailUsers : SendWelcomeEmail(u)
  \/ \E op \in {"send2FACode", "sendWelcomeEmail"}, ok \in BOOLEAN : SendReturn(op, ok)

SpecEmail == InitEmail /\ [][NextEmail]_vars

(***************************************************************************)
(* api/server.js: the health check, the database connection middleware,    *)
(* the auth routes mounted behind it, and the 404 handler.                 *)
(***************************************************************************)
\* req.path of the requests: the login route as written and in capitals, a
\* path outside /api/auth, and the health check.
ApiPaths == {"/api/auth/login", "/API/AUTH/login", "/api/reports", "/api/health"}

\* The path in lower case: Express matches routes and mount paths without
\* regard to case ('case sensitive routing' is off by default).
Lower(path) == IF path = "/API/AUTH/login" THEN "/api/auth/login" ELSE path

\* req.path.startsWith("/api/auth"): a comparison of the path as sent.
StartsWithApiAuth(path) == path = "/api/auth/login"

\* app.use("/api/auth", authRoutes): whether the mount path matches.
MountMatches(path) == StartsWithApiAuth(Lower(path))

\* app.get("/api/health", ...): whether the route matches.
HealthMatches(method, path) == method = "GET" /\ Lower(path) = "/api/health"

\* error.message of a connectDB() that failed.
ConnectErrorMessage == "MongooseServerSelectionError: connect ECONNREFUSED"

\* The request record of a request to api/server.js.
ApiReq(req, method, path, reconnect, handler) ==
  [req EXCEPT !.op = "api", !.method = method, !.path = path,
              !.connected = (readyState = 1), !.reconnect = reconnect,
              !.handler = handler]

\* The connection goes down (mongoose.connection.readyState leaves 1).
Disconnect ==
  /\ readyState = 1
  /\ readyState' = 0
  /\ UNCHANGED <<users, inflight, nextUid, reports, nextRid, issued, now, nodeEnv,
                 mail, last>>

\* GET /api/health: reports the connection and tries to reconnect.
Health(connectOk) ==
  LET attempt == readyState # 1
      failed  == attempt /\ ~connectOk
      req     == ApiReq(Req("api", "", "", "none"), "GET", "/api/health",
                        IF ~attempt THEN "none" ELSE IF connectOk THEN "ok" ELSE "failed",
                        "health")
  IN
  /\ readyState' = IF attempt /\ connectOk THEN 1 ELSE readyState
  /\ last' = [req |-> req,
              resp |-> Resp(IF failed THEN 503 ELSE 200, TRUE, "API is running", "")]
  /\ UNCHANGED <<users, inflight, nextUid, reports, nextRid, issued, now, nodeEnv, mail>>

\* Any other request: the database connection middleware, then the auth
\* routes if the mount path matches, then the 404 handler.  A handler that
\* runs without a connection finds its store call failing.
ApiRequest(method, path, connectOk, email, password, fault) ==
  LET attempt   == path # "/api/health" /\ readyState # 1
      reconnect == IF ~attempt THEN "none" ELSE IF connectOk THEN "ok" ELSE "failed"
      state     == IF reconnect = "ok" THEN 1 ELSE readyState
      out       == LoginOutcome(users, email, password,
                                IF state # 1 THEN "findOne" ELSE fault)
  IN
  /\ ~HealthMatches(method, path)
  /\ fault \in {"none", "findOne"}
  /\ readyState' = state
  /\ IF reconnect = "failed" /\ StartsWithApiAuth(path)
       THEN last' = [req |-> ApiReq(Req("api", "", "", "none"), method, path, reconnect, ""),
                     resp |-> Resp(503, FALSE, "Service temporarily unavailable",
                                   IF nodeEnv = "development" THEN ConnectErrorMessage
                                   ELSE "")]
     ELSE IF MountMatches(path) /\ method = "POST"
       THEN last' = [req |-> ApiReq(out.req, method, path, reconnect, "login"),
                     resp |-> out.resp]
     ELSE last' = [req |-> ApiReq(Req("api", "", "", "none"), method, path, reconnect, ""),
                   resp |-> Resp(404, FALSE, "Route not found", "")]
  /\ UNCHANGED <<users, inflight, nextUid, reports, nextRid, issued, now, nodeEnv, mail>>

\* The server starts with the accounts stored; the first connectDB() has
\* succeeded or (outside production) failed.
InitApi ==
  /\ users = ReportAccounts
  /\ inflight = EmptyBag
  /\ nextUid = 4
  /\ reports = {}
  /\ nextRid = 1
  /\ issued = {}
  /\ now = 0
  /\ nodeEnv = "production"
  /\ readyState \in {0, 1}
  /\ mail = EmailServiceNew(FALSE)
  /\ last = [req |-> Req("none", "", "", "none"), resp |-> NoResp]

NextApi ==
  \/ Disconnect
  \/ \E ok \in BOOLEAN : Health(ok)
  \/ \E m \in {"GET", "POST"}, p \in ApiPaths, ok \in BOOLEAN, e \in Emails,
        pw \in LoginPasswords, f \in {"none", "findOne"} :
       ApiRequest(m, p, ok, e, pw, f)

SpecApi == InitApi /\ [][NextApi]_vars

(***************************************************************************)
(* Properties                                                              *)
(***************************************************************************)
Protected == {"submit", "myReports", "updateStatus"}

\* C1: a status update by an authenticated caller, with a valid status, for
\* a stored report, served without a store failure: it answers 200 and the
\* report's status becomes the requested value iff the caller's identifier
\* equals the report's reportedBy or the caller's role is 'admin'; otherwise
\* it answers 403 (and the store is unchanged).
C1_OwnerOrAdminDecides ==
  [][(last'.req.op = "updateStatus" /\ last'.req.authOk)
       => \A id \in 1..MaxReports, st \in (StatusInputs \cap Statuses) \cap {last'.req.status} :
            UpdateStatus(last'.req.tok, id, st, "none")
              => \A R \in {r \in reports : r.id = id}, k \in last'.req.tok :
                   \A C \in {a \in users : a.id = k.userId} :
                     IF R.reportedBy = C.id \/ C.role = "admin"
                       THEN /\ last'.resp.status = 200
                            /\ reports' = (reports \ {R}) \cup {[R EXCEPT !.status = st]}
                       ELSE /\ last'.resp.status = 403
                            /\ reports' = reports]_vars

\* An admin who is not the owner has updated a report.
C1_AdminUpdatedAnothersReport ==
  /\ last.req.op = "updateStatus"
  /\ last.resp.status = 200
  /\ \E k \in last.req.tok, d \in last.resp.reportDocs :
       d.reportedBy # k.userId /\ d.status = "resolved" /\ d \in reports

\* C2: every login whose email matches no account, or matches an account
\* whose password the request's password is not, gets the one response
\* 401 { success: false, message: 'Invalid email or password' }.
C2_LoginFailuresIndistinguishable ==
  (/\ last.req.op = "login"
   /\ last.req.fault = "none"
   /\ \A u \in users : u.email = Normalize(last.req.email)
                         => u.password # BcryptHash(last.req.password))
    => last.resp = Resp(401, FALSE, "Invalid email or password", "")

\* C3: no two account records have the same normalized email, and a signup
\* that arrives for an email that has an account answers 400 'User already
\* exists with this email' and writes nothing.
C3_OneAccountPerEmail ==
  [][/\ \A u, v \in users' : u.email = v.email => u = v
     /\ \A e \in {x \in Emails : \E u \in users : u.email = Normalize(x)} :
          \A p \in SignupPasswords, n \in Names :
            SignupBegin(e, p, n, "none")
              => /\ last'.resp = Resp(400, FALSE, "User already exists with this email", "")
                 /\ users' = users
                 /\ inflight' = inflight]_vars

\* A signup under another spelling of an account's email was refused.
C3_DuplicateRefused ==
  /\ last.req.op = "signup"
  /\ last.req.email = "Ana@X.com"
  /\ last.resp.message = "User already exists with this email"
  /\ \E u \in users : u.email = "ana@x.com"
  /\ \E u \in users : u.email = "bo@x.com"

\* The password values a response body carries.
PasswordsIn(resp) ==
  UNION {d.password : d \in resp.user} \cup UNION {d.password : d \in resp.userDocs}

C5_TokenNamesTheAccount ==
  [][(last' # last /\ last'.resp.success /\ last'.req.op \in {"signup", "login"})
       => \E t \in last'.resp.token :
            \E a \in (IF last'.req.op = "signup" THEN users' \ users
                      ELSE {u \in users : u.email = Normalize(last'.req.email)}) :
              /\ t.userId = a.id
              /\ t.email = a.email
              /\ last'.req.op = "signup" => users' \ users = {a}]_vars

\* A signup under a spelling the store normalizes got a token with the
\* stored email.
C5_SignupTokenIssued ==
  /\ last.req.op = "signup"
  /\ last.resp.status = 201
  /\ last.req.email = "Ana@X.com"
  /\ \E t \in last.resp.token, u \in users : t.userId = u.id /\ t.email = "ana@x.com"

\* C6 (as amended): a token the server issued at time T is accepted at every
\* time before T + 7 days and rejected at every time from T + 7 days on; a
\* token whose claims were changed after signing, or that is malformed, is
\* rejected at every time.
C6_TokenLifetime ==
  last.req.op = "myReports"
    => \A k \in last.req.tok :
         IF k \in issued
           THEN last.req.authOk <=> (last.req.at < k.iat + ExpiresIn)
           ELSE ~last.req.authOk

\* C6 (as claimed): an issued token is accepted at every time up to and
\* including T + 7 days, and rejected after.
C6_AcceptedThroughDaySeven ==
  last.req.op = "myReports"
    => \A k \in last.req.tok :
         IF k \in issued
           THEN last.req.authOk <=> (last.req.at <= k.iat + ExpiresIn)
           ELSE ~last.req.authOk

\* An issued token was presented exactly 7 days after it was issued.
C6_PresentedOnDaySeven ==
  /\ last.req.op = "myReports"
  /\ \E k \in last.req.tok : k \in issued /\ last.req.at = k.iat + ExpiresIn

\* C7: a request to a protected route that carries no token, or a token that
\* fails verification, is answered 401 and leaves the report store as it was.
C7_GateShortCircuits ==
  [][(/\ last'.req.op \in Protected
      /\ \/ last'.req.tok = {}
         \/ \E k \in last'.req.tok : ~JwtVerify(k, last'.req.at))
       => /\ last'.resp.status = 401
          /\ ~last'.resp.success
          /\ last'.resp.reportDocs = {}
          /\ reports' = reports
          /\ nextRid' = nextRid]_vars

\* A submission with an expired token was refused while reports exist.
C7_ExpiredTokenRefused ==
  /\ last.req.op = "submit"
  /\ last.req.tok # {}
  /\ last.resp.status = 401
  /\ reports # {}

\* C8: every stored report's status is one of the three; a report is
\* created 'active'; a status update by an authenticated caller with any
\* other status value answers 400 and changes no report.
C8_StatusEnumerated ==
  [][/\ \A r \in reports' : r.status \in {"active", "resolved", "false_report"}
     /\ \A r \in reports' : (\A o \in reports : o.id # r.id) => r.status = "active"
     /\ (/\ last'.req.op = "updateStatus"
         /\ last'.req.authOk
         /\ last'.req.status \notin {"active", "resolved", "false_report"})
          => last'.resp.status = 400 /\ reports' = reports]_vars

\* An invalid status value was refused while a report was stored.
C8_InvalidStatusRefused ==
  /\ last.req.op = "updateStatus"
  /\ last.req.status = "archived"
  /\ last.resp.status = 400
  /\ last.resp.message = "Invalid status value"
  /\ \E r \in reports : r.status = "resolved"

\* C9: a report that a step creates is created by a submission that passed
\* the gate, and its reportedBy is the identifier the gate resolved from the
\* request's token, whatever the body says.
C9_ReporterIsTheCaller ==
  [][\A r \in reports' : (\A o \in reports : o.id # r.id)
       => /\ last'.req.op = "submit"
          /\ last'.req.authOk
          /\ \E k \in last'.req.tok : r.reportedBy = k.userId]_vars

\* A submission whose body names another reporter, a status and a verified
\* flag was stored under the caller, active and unverified.
C9_SpoofedBodyIgnored ==
  /\ last.req.op = "submit"
  /\ last.resp.status = 201
  /\ last.req.reporter = 3
  /\ \E d \in last.resp.reportDocs :
       d \in reports /\ d.reportedBy = 1 /\ d.status = "active" /\ ~d.verified

\* C10: a request during which a store call failed is answered 500 and,
\* outside development mode, without the raw error detail.
C10_StoreFailureIsGeneric500 ==
  last.req.fault \notin {"none", "cast"}
    => /\ last.resp.status = 500
       /\ nodeEnv # "development" => last.resp.error = ""

\* The passwords a signup may have sent for the stored hash of account u.
SignedUpWith(u) == {p \in CredentialSignupPasswords : BcryptHash(p) = u.password}

\* C11: for an account that a signup with (e, p) created and whose password
\* was not changed since, a login with (e, p) answers 200 with a token for
\* that account, and a login with (e, p') for any p' other than p answers
\* 401 'Invalid email or password'.
C11_LoginAfterSignup ==
  (last.req.op = "login" /\ last.req.fault = "none")
    => \A u \in {a \in users : a.email = Normalize(last.req.email)} :
         \A p \in SignedUpWith(u) :
           IF last.req.password = p
             THEN /\ last.resp.status = 200
                  /\ \E t \in last.resp.token : t.userId = u.id
             ELSE last.resp = Resp(401, FALSE, "Invalid email or password", "")

\* C12: the password stored on every account record is a hash, never the
\* plaintext the client sent, whichever of signup, POST /api/users and
\* PUT /api/users/:id wrote the record.
C12_StoredPasswordIsHash ==
  \A u \in users : u.password.kind = "bcrypt" /\ u.password # Plain(u.password.of)

\* C13: every response body carries a boolean success field, and every
\* failure response carries a message.
C13_EveryResponseHasSuccess ==
  last.req.op # "none"
    => /\ last.resp.hasSuccess
       /\ last.resp.success \in BOOLEAN
       /\ last.resp.status >= 400 => last.resp.message # ""

\* C14: a status update by an authenticated caller, served without a store
\* failure, for an identifier under which no report is stored, answers 404.
C14_MissingReportIs404 ==
  [][(last'.req.op = "updateStatus" /\ last'.req.authOk)
       => \A id \in {NotObjectId} \cup 1..MaxReports, st \in StatusInputs :
            (/\ UpdateStatus(last'.req.tok, id, st, "none")
             /\ \A r \in reports : r.id # id)
              => last'.resp.status = 404]_vars

\* C15: when a signup that passed the existence check reaches its insert,
\* served without a store failure: if an account with its email was inserted
\* meanwhile, the insert fails, the answer is the generic 400 'Error creating
\* user' without a token, and the accounts are unchanged; otherwise the
\* answer is 201 with a token and exactly one account is added.  So of two
\* signups for one email that both passed the check, one gets 201 and the
\* other the generic error, and one account with that email exists.
C15_RaceLosesToUniqueIndex ==
  [][\A r \in BagToSet(inflight) :
       SignupSave(r, "none")
         => IF \E u \in users : u.email = Normalize(r.email)
              THEN /\ last'.resp.status = 400
                   /\ last'.resp.message = "Error creating user"
                   /\ ~last'.resp.success
                   /\ last'.resp.token = {}
                   /\ users' = users
              ELSE /\ last'.resp.status = 201
                   /\ last'.resp.token # {}
                   /\ Cardinality(users' \ users) = 1
                   /\ users \subseteq users'
                   /\ Cardinality({u \in users' : u.email = Normalize(r.email)}) = 1]_vars

\* The second of two signups for one email lost to the unique index: the
\* first one's account is stored, once.
C15_SecondSignupLost ==
  /\ last.req.op = "signup"
  /\ last.resp.error = DuplicateKeyMessage
  /\ last.resp.message = "Error creating user"
  /\ Cardinality({u \in users : u.email = Normalize(last.req.email)
                                 /\ u.password.kind = "bcrypt"}) = 1

\* C16: a status update that is answered 403 leaves every stored report,
\* the targeted one and all others, as it was.
C16_RejectionWritesNothing ==
  [][(last'.req.op = "updateStatus" /\ last'.resp.status = 403)
       => /\ reports' = reports
          /\ nextRid' = nextRid]_vars

\* A user's update of another user's report was answered 403 while two
\* reports were stored.
C16_RejectedWithTwoReports ==
  /\ last.req.op = "updateStatus"
  /\ last.resp.status = 403
  /\ last.resp.message = "Not authorized to update this report"
  /\ Cardinality(reports) >= 2
  /\ \E k \in last.req.tok, r \in reports : r.reportedBy # k.userId

\* The fields of a submission that violate their constraint: severity is
\* one of the three levels, location is not empty, a description has at most
\* 1000 characters, a latitude lies in [-90, 90], a longitude in [-180, 180].
Violations(b) ==
  (IF b.severity \in {"light", "moderate", "severe"} THEN {} ELSE {"severity"})
    \cup (IF b.location # "" THEN {} ELSE {"location"})
    \cup (IF b.description = Missing \/ b.description <= MaxDescription
            THEN {} ELSE {"description"})
    \cup (IF b.latitude = Missing
             \/ (b.latitude >= -MaxLatitude /\ b.latitude <= MaxLatitude)
            THEN {} ELSE {"latitude"})
    \cup (IF b.longitude = Missing
             \/ (b.longitude >= -MaxLongitude /\ b.longitude <= MaxLongitude)
            THEN {} ELSE {"longitude"})

\* C17: a submission by an authenticated caller in which any of severity,
\* location, description, latitude or longitude violates its constraint is
\* answered 400 with the list of the failing fields, and no report record
\* is written.
C17_InvalidSubmissionRejected ==
  [][(last'.req.op = "submit" /\ last'.req.authOk)
       => \A b \in {x \in last'.req.body : Violations(x) # {}} :
            /\ last'.resp.status = 400
            /\ ~last'.resp.success
            /\ last'.resp.errors = Violations(b)
            /\ reports' = reports
            /\ nextRid' = nextRid]_vars

\* A submission failing all five rules was answered with the five fields
\* while a report was stored.
C17_FiveFieldsListed ==
  /\ last.req.op = "submit"
  /\ \E b \in last.req.body : b.severity = "" /\ b.location = ""
  /\ last.resp.status = 400
  /\ last.resp.errors = {"severity", "location", "description", "latitude", "longitude"}
  /\ reports # {}

\* C18: from a failure of verifyTransporter until initializeTransporter
\* runs again, isConfigured is false; and while isConfigured is false (after
\* such a failure, or because the configuration was missing at
\* construction), every call of send2FACode, sendWelcomeEmail or
\* verifyTransporter returns { success: false, error: 'Email service not
\* configured' } and neither transporter.sendMail nor transporter.verify is
\* called.
C18_DisabledServiceSendsNothing ==
  [][/\ mail'.failedVerify => ~mail'.isConfigured
     /\ mail'.isConfigured => mail'.transporter
     /\ ~mail.isConfigured
          => /\ (mail'.isConfigured => Reinitialize(FALSE))
             /\ mail'.sendMailCalls = mail.sendMailCalls
             /\ mail'.verifying <= mail.verifying
             /\ BagCardinality(mail'.sending) <= BagCardinality(mail.sending)
             /\ VerifyCall
                  => mail'.result = Failure("verifyTransporter", NotConfiguredMessage)
             /\ \A e \in MailAddresses, c \in MailCodes :
                  Send2FACode(e, c)
                    => mail'.result = Failure("send2FACode", NotConfiguredMessage)
             /\ \A u \in MailUsers :
                  SendWelcomeEmail(u)
                    => mail'.result = Failure("sendWelcomeEmail", NotConfiguredMessage)]_vars

\* After mail had been sent, verifyTransporter failed, and a later
\* send2FACode was refused.
C18_RefusedAfterFailedVerify ==
  /\ mail.failedVerify
  /\ mail.sendMailCalls > 0
  /\ mail.result = Failure("send2FACode", NotConfiguredMessage)

\* C19: a request to api/server.js other than /api/health that arrives
\* while the database is not connected has a reconnect attempted first; if
\* the reconnect fails and the path starts with /api/auth, the answer is 503
\* 'Service temporarily unavailable' and no auth route handler is invoked;
\* so an auth route handler runs only for a request for which the database
\* was connected or was reconnected.
C19_GateBeforeAuthRoutes ==
  (last.req.op = "api" /\ last.req.handler # "health")
    => /\ (last.req.path # "/api/health" /\ ~last.req.connected)
            => last.req.reconnect # "none"
       /\ (last.req.reconnect = "failed" /\ StartsWithApiAuth(last.req.path))
            => /\ last.resp.status = 503
               /\ last.resp.message = "Service temporarily unavailable"
               /\ last.req.handler = ""
       /\ last.req.handler = "login"
            => (last.req.connected \/ last.req.reconnect = "ok")

====
